---- MODULE Spec2Model ----
(***************************************************************************)
(* A model of src/src/validation.rs: the error-accumulating Validation     *)
(* type, its combinators (map, map_err, map_errs, ap, merge), its          *)
(* FromIterator and From<Result> implementations, and the person-record    *)
(* validators of its test module.                                          *)
(*                                                                         *)
(* Representation.  Rust values are TLA+ records:                          *)
(*   Validation::Ok(v)    is [tag |-> "Ok",   value  |-> v]                *)
(*   Validation::Errs(es) is [tag |-> "Errs", errors |-> es]               *)
(* A NonEmptyVec { head, tail } is the TLA+ sequence <<head>> \o tail; the *)
(* type is defined in crate::non_empty_vec, outside validation.rs, so its  *)
(* operations follow its specified contract (head, tail, append, map,      *)
(* conversion from one element).                                           *)
(* Success values are records with a field kind; closures are records      *)
(* that name the closure's body and hold its captured environment, and     *)
(* Apply evaluates them.                                                   *)
(***************************************************************************)
EXTENDS Integers, Sequences, FiniteSets, TLC

VARIABLES
    self,   \* the receiver of the next combinator call
    other,  \* the second operand of ap / merge
    iter,   \* the sequence of Validations handed to collect()
    raw,    \* the raw input of a conversion: a Result or a PersonRaw
    out,    \* the value the last call returned
    op,     \* the last call: its name and its function / type argument
    calls   \* how many times the last call invoked its function argument

vars == <<self, other, iter, raw, out, op, calls>>

(***************************************************************************)
(* Bounds of the model.                                                    *)
(***************************************************************************)
MaxErrs == 3      \* longest error sequence of an operand or a result
MaxIter == 3      \* longest sequence handed to collect()
MaxChain == 3     \* error weight the chained specification may build up

(***************************************************************************)
(* Success values.                                                         *)
(***************************************************************************)
Unit == [kind |-> "unit"]

Str(s) == [kind |-> "str", chars |-> s]

Vec(items) == [kind |-> "vec", items |-> items]

Fn(name, env) == [kind |-> "fn", name |-> name, env |-> env]

Ok(v) == [tag |-> "Ok", value |-> v]

Errs(es) == [tag |-> "Errs", errors |-> es]

IsOk(v) == v.tag = "Ok"

IsErrs(v) == v.tag = "Errs"

(***************************************************************************)
(* Error values: the variants of an error enum, and the wrapper a          *)
(* map_errs closure builds around a whole error sequence.                  *)
(***************************************************************************)
Err(name) == [err |-> name]

Wrapped(es) == [err |-> "Wrapped", errors |-> es]

ErrAtoms == {Err("E1"), Err("E2"), Err("E3")}

(***************************************************************************)
(* NonEmptyVec<E>.                                                         *)
(***************************************************************************)
NonEmptyVec(head, tail) == <<head>> \o tail

NEV_from(e) == NonEmptyVec(e, <<>>)

NEV_append(a, b) == NonEmptyVec(Head(a), Tail(a) \o <<Head(b)>> \o Tail(b))

NEV_head(a) == Head(a)

(***************************************************************************)
(* Option<T>.                                                              *)
(***************************************************************************)
None == [some |-> FALSE]

Some(x) == [some |-> TRUE, val |-> x]

(***************************************************************************)
(* Collecting an ordered sequence of values into a target type B through   *)
(* B's FromIterator: Vec<A> keeps the items, String concatenates the       *)
(* strings, () consumes the units.                                         *)
(***************************************************************************)
RECURSIVE Concat(_)
Concat(items) ==
    IF items = <<>> THEN <<>> ELSE Head(items).chars \o Concat(Tail(items))

CollectInto(B, items) ==
    CASE B = "Vec" -> Vec(items)
      [] B = "String" -> Str(Concat(items))
      [] B = "Unit" -> Unit

TypeOf(v) ==
    CASE v.kind = "unit" -> "Unit"
      [] v.kind = "str" -> "String"
      [] v.kind = "vec" -> "Vec"
      [] OTHER -> "Other"

RECURSIVE Reverse(_)
Reverse(s) == IF s = <<>> THEN <<>> ELSE Append(Reverse(Tail(s)), Head(s))

(***************************************************************************)
(* The closures the program passes to map and ap.  f.name names the        *)
(* closure's body and f.env holds what it captured.                        *)
(***************************************************************************)
Apply(f, x) ==
    CASE f.name = "id" -> x
      [] f.name = "to_unit" -> Unit
      [] f.name = "rev" -> Str(Reverse(x.chars))
      [] f.name = "merge_outer" -> Fn("merge_inner", <<x>>)
      [] f.name = "merge_inner" -> CollectInto(TypeOf(x), <<x, f.env[1]>>)
      [] f.name = "PhoneNumber" -> [kind |-> "PhoneNumber", chars |-> f.env[1]]
      [] f.name = "person_phone" -> Fn("person_name", <<x>>)
      [] f.name = "person_name" -> Fn("person_email", f.env \o <<x>>)
      [] f.name = "person_email" ->
            [kind |-> "Person", email |-> x, name |-> f.env[2], phone |-> f.env[1]]

\* The closures handed to map_err: E -> G.
ApplyE(g, e) ==
    CASE g = "flip" -> (IF e = Err("E1") THEN Err("E2") ELSE Err("E1"))
      [] g = "konst" -> Err("E1")

\* NonEmptyVec::map: the closure applied to every element, in order.
NEV_map(a, g) == [i \in 1..Len(a) |-> ApplyE(g, a[i])]

\* The closures handed to map_errs: NonEmptyVec<E> -> G.
ApplyH(h, es) ==
    CASE h = "head" -> NEV_head(es)
      [] h = "konst" -> Err("E1")
      [] h = "wrap" -> Wrapped(es)
      [] h = "InvalidEmail" -> [err |-> "InvalidEmail", text |-> NEV_head(es).chars]
      [] h = "InvalidFullName" -> Err("InvalidFullName")
      [] h = "InvalidPhoneNumber" -> [err |-> "InvalidPhoneNumber", errors |-> es]

(***************************************************************************)
(* impl Validation<T, E>                                                   *)
(***************************************************************************)
map(v, f) ==
    IF IsOk(v) THEN Ok(Apply(f, v.value)) ELSE Errs(v.errors)

map_err(v, g) ==
    IF IsOk(v) THEN Ok(v.value)
    ELSE Errs(NEV_map(v.errors, g))

\* A plausible slip in map_errs: the closure applied to each error on its own.
map_errs_each(v, h) ==
    IF IsOk(v) THEN Ok(v.value)
    ELSE Errs([i \in 1..Len(v.errors) |-> ApplyH(h, <<v.errors[i]>>)])

map_errs(v, h) ==
    IF IsOk(v) THEN Ok(v.value) ELSE Errs(NEV_from(ApplyH(h, v.errors)))

\* A plausible slip in ap: errors_1 drained into errors_2's place, and the
\* emptied sequence returned.
ap_drained(v, f) ==
    CASE IsOk(v) /\ IsOk(f) -> Ok(Apply(f.value, v.value))
      [] IsOk(v) /\ IsErrs(f) -> Errs(f.errors)
      [] IsErrs(v) /\ IsOk(f) -> Errs(v.errors)
      [] IsErrs(v) /\ IsErrs(f) -> Errs(<<>>)

\* A plausible slip in ap: the two error sequences joined the wrong way round.
ap_swapped(v, f) ==
    CASE IsOk(v) /\ IsOk(f) -> Ok(Apply(f.value, v.value))
      [] IsOk(v) /\ IsErrs(f) -> Errs(f.errors)
      [] IsErrs(v) /\ IsOk(f) -> Errs(v.errors)
      [] IsErrs(v) /\ IsErrs(f) -> Errs(NEV_append(f.errors, v.errors))

ap(v, f) ==
    CASE IsOk(v) /\ IsOk(f) -> Ok(Apply(f.value, v.value))
      [] IsOk(v) /\ IsErrs(f) -> Errs(f.errors)
      [] IsErrs(v) /\ IsOk(f) -> Errs(v.errors)
      [] IsErrs(v) /\ IsErrs(f) -> Errs(NEV_append(v.errors, f.errors))

\* A plausible slip in merge: vec![other, self_] and other's errors first.
merge_swapped(v, w) == ap(w, map(v, Fn("merge_outer", <<>>)))

\* A plausible slip in merge: fail-fast, other's errors lost when self failed.
merge_fail_fast(v, w) ==
    IF IsErrs(v) THEN Errs(v.errors) ELSE ap(v, map(w, Fn("merge_outer", <<>>)))

merge(v, w) == ap(v, map(w, Fn("merge_outer", <<>>)))

\* impl Default: Validation::Ok(T::default()), for T = () and T = String.
Validation_default(T) ==
    CASE T = "Unit" -> Ok(Unit)
      [] T = "String" -> Ok(Str(<<>>))

(***************************************************************************)
(* impl FromIterator<Validation<A, E>> for Validation<B, E>                *)
(***************************************************************************)
\* A plausible slip in Adapter::next: a later failure replaces the errors
\* gathered so far.
Adapter_next_overwrite(ad) ==
    IF ad.iter = <<>> THEN [adapter |-> ad, item |-> None]
    ELSE LET x == Head(ad.iter)
             rest == Tail(ad.iter)
         IN  IF IsOk(x)
             THEN [adapter |-> [iter |-> rest, errors |-> ad.errors],
                   item |-> Some(Some(x.value))]
             ELSE [adapter |-> [iter |-> rest, errors |-> Some(x.errors)],
                   item |-> Some(None)]

\* Adapter::next: one step of the adapter [iter, errors]; item is what it
\* yields: None at the end, Some(None) for an Errs, Some(Some(v)) for Ok(v).
Adapter_next(ad) ==
    IF ad.iter = <<>> THEN [adapter |-> ad, item |-> None]
    ELSE LET x == Head(ad.iter)
             rest == Tail(ad.iter)
         IN  IF IsOk(x)
             THEN [adapter |-> [iter |-> rest, errors |-> ad.errors],
                   item |-> Some(Some(x.value))]
             ELSE [adapter |->
                       [iter |-> rest,
                        errors |-> IF ad.errors.some
                                   THEN Some(NEV_append(ad.errors.val, x.errors))
                                   ELSE Some(x.errors)],
                   item |-> Some(None)]

\* A plausible slip in the gathering loop: each value put in front.
RECURSIVE Drain_reversed(_, _)
Drain_reversed(ad, acc) ==
    LET r == Adapter_next(ad)
    IN  IF ~r.item.some THEN [adapter |-> r.adapter, items |-> acc]
        ELSE IF r.item.val.some
             THEN Drain_reversed(r.adapter, <<r.item.val.val>> \o acc)
             ELSE Drain_reversed(r.adapter, acc)

\* B::from_iter(adapter.by_ref().flatten()): pulls items until the adapter
\* yields None, keeping the Some(v) ones in order.
RECURSIVE Drain(_, _)
Drain(ad, acc) ==
    LET r == Adapter_next(ad)
    IN  IF ~r.item.some THEN [adapter |-> r.adapter, items |-> acc]
        ELSE IF r.item.val.some
             THEN Drain(r.adapter, Append(acc, r.item.val.val))
             ELSE Drain(r.adapter, acc)

\* A plausible slip in from_iter: a collect that gathered no value reports a
\* failure.
from_iter_needs_values(it, B) ==
    LET d == Drain([iter |-> it, errors |-> None], <<>>)
        b == CollectInto(B, d.items)
    IN  IF d.adapter.errors.some THEN Errs(d.adapter.errors.val)
        ELSE IF d.items = <<>> THEN Errs(<<>>) ELSE Ok(b)

from_iter(it, B) ==
    LET d == Drain([iter |-> it, errors |-> None], <<>>)
        b == CollectInto(B, d.items)
    IN  IF d.adapter.errors.some THEN Errs(d.adapter.errors.val) ELSE Ok(b)

(***************************************************************************)
(* impl From<Result<T, E>> for Validation<T, E>                            *)
(***************************************************************************)
ResultOk(v) == [res |-> "Ok", value |-> v]

ResultErr(e) == [res |-> "Err", error |-> e]

\* A plausible slip in From<Result>: a compound error spread into its parts.
Validation_from_spread(result) ==
    IF result.res = "Ok" THEN Ok(result.value)
    ELSE IF result.error.err = "Wrapped" THEN Errs(result.error.errors)
         ELSE Errs(NEV_from(result.error))

Validation_from(result) ==
    IF result.res = "Ok" THEN Ok(result.value) ELSE Errs(NEV_from(result.error))

(***************************************************************************)
(* The person-record validators of the test module.  A String is the       *)
(* sequence of its chars; a char is named by a TLA+ string, and ByteLen    *)
(* gives the length of its UTF-8 encoding (String::len counts bytes).      *)
(***************************************************************************)
Alphabetic == {"a", "b", "V", "P", "e_acute"}

AsciiDigits == {"0", "1", "2", "3", "4", "5", "6", "7", "8", "9"}

ByteLen(c) ==
    CASE c = "e_acute" -> 2
      [] c = "ENVELOPE" -> 3
      [] c \in {"JOY", "PHONE"} -> 4
      [] OTHER -> 1

RECURSIVE StringLen(_)
StringLen(s) == IF s = <<>> THEN 0 ELSE ByteLen(Head(s)) + StringLen(Tail(s))

PhoneMinLen == 10

PhoneMaxLen == 16

Email_validate(s) ==
    IF Cardinality({i \in 1..Len(s) : s[i] = "@"}) = 1
    THEN Ok([kind |-> "Email", chars |-> s])
    ELSE Errs(NEV_from(Str(s)))

FullName_validate(s) ==
    IF \A i \in 1..Len(s) : s[i] \in Alphabetic \/ s[i] = " "
    THEN Ok([kind |-> "FullName", chars |-> s])
    ELSE Errs(NEV_from(Unit))

PhoneNumber_validate(s) ==
    LET len == StringLen(s)
        length_validation ==
            IF len > PhoneMaxLen \/ len < PhoneMinLen
            THEN Errs(NEV_from(Err("LengthOutOfRange")))
            ELSE Ok(Unit)
        format_validation ==
            IF (s = <<>> \/ Head(s) # "+")
               \/ ~(\A i \in 2..Len(s) : s[i] \in AsciiDigits)
            THEN Errs(NEV_from(Err("InvalidFormat")))
            ELSE Ok(Unit)
    IN  map(merge(length_validation, format_validation), Fn("PhoneNumber", <<s>>))

PersonRaw(email, name, phone) == [email |-> email, name |-> name, phone |-> phone]

\* A plausible slip in Person::validate: the name validated before the email.
Person_validate_reordered(r) ==
    ap(map_errs(FullName_validate(r.name), "InvalidFullName"),
       ap(map_errs(Email_validate(r.email), "InvalidEmail"),
          map(map_errs(PhoneNumber_validate(r.phone), "InvalidPhoneNumber"),
              Fn("person_phone", <<>>))))

Person_validate(r) ==
    ap(map_errs(Email_validate(r.email), "InvalidEmail"),
       ap(map_errs(FullName_validate(r.name), "InvalidFullName"),
          map(map_errs(PhoneNumber_validate(r.phone), "InvalidPhoneNumber"),
              Fn("person_phone", <<>>))))

\* The raw fields the validators are run on.
Emails ==
    { <<"a", "@", "b">>, <<"ENVELOPE">>, <<"a", "@", "@", "b">>, <<>>, <<":", "3">> }

Names ==
    { <<"V", "a", " ", "P", "e_acute">>, <<"JOY">>, <<"a", "1">>, <<>> }

Phones ==
    { <<"+", "7", "9", "9", "9", "1", "2", "3", "4", "5", "6", "7">>,
      <<"PHONE">>,
      <<"+", "1", "2">>,
      <<"1", "2", "3", "4", "5", "6", "7", "8", "9", "0">>,
      <<"PHONE", "PHONE", "PHONE">>,
      <<"+", "1", "2", "3", "4", "5", "6", "7", "8", "9", "0", "1", "2", "3", "4",
        "5", "6">>,
      <<>> }

(***************************************************************************)
(* State machines.  NoValue fills the variables a specification leaves     *)
(* unused; NoCall is the op of a state in which nothing has been called.   *)
(***************************************************************************)
NoValue == [tag |-> "None"]

NoCall == [name |-> "none", arg |-> "none"]

Call(name, arg) == [name |-> name, arg |-> arg]

(***************************************************************************)
(* SpecPerson: Person::validate run once on a raw record.                  *)
(***************************************************************************)
InitPerson ==
    /\ raw \in {PersonRaw(e, n, p) : e \in Emails, n \in Names, p \in Phones}
    /\ self = NoValue /\ other = NoValue /\ iter = <<>>
    /\ out = NoValue /\ op = NoCall /\ calls = 0

ValidatePerson ==
    /\ op = NoCall
    /\ out' = Person_validate(raw)
    /\ op' = Call("Person::validate", "none")
    /\ UNCHANGED <<self, other, iter, raw, calls>>

NextPerson == ValidatePerson

SpecPerson == InitPerson /\ [][NextPerson]_vars

(***************************************************************************)
(* Operands of the single-call specifications.                             *)
(***************************************************************************)
\* The non-empty sequences of at most n elements of S.
SeqsUpTo(S, n) == UNION {[1..k -> S] : k \in 1..n}

Strings == {Str(<<"a", "b">>), Str(<<"b">>)}

Values == {Unit} \cup Strings

Closures == {Fn("id", <<>>), Fn("to_unit", <<>>), Fn("rev", <<>>)}

Failures == {Errs(es) : es \in SeqsUpTo(ErrAtoms, MaxErrs)}

\* Whether closure f accepts the value x (the program's static typing).
Applicable(f, x) ==
    CASE f.name \in {"id", "to_unit"} -> TRUE
      [] f.name = "rev" -> x.kind = "str"
      [] f.name = "merge_outer" -> x.kind \in {"unit", "str"}
      [] f.name = "merge_inner" -> x.kind = f.env[1].kind
      [] OTHER -> FALSE

\* self.ap(other) type-checks: other holds a closure that accepts self's value.
CanAp(v, f) ==
    /\ IsOk(f) => f.value.kind = "fn"
    /\ IsOk(v) /\ IsOk(f) => Applicable(f.value, v.value)

\* self.merge(other) type-checks: both hold the same T, and T: FromIterator<T>.
CanMerge(v, w) ==
    /\ IsOk(v) => v.value.kind \in {"unit", "str"}
    /\ IsOk(w) => w.value.kind \in {"unit", "str"}
    /\ IsOk(v) /\ IsOk(w) => v.value.kind = w.value.kind

(***************************************************************************)
(* SpecAp: one call of ap or merge on a pair of operands.                  *)
(***************************************************************************)
InitAp ==
    /\ self \in {Ok(x) : x \in Values} \cup Failures
    /\ other \in {Ok(x) : x \in Values \cup Closures} \cup Failures
    /\ CanAp(self, other) \/ CanMerge(self, other)
    /\ iter = <<>> /\ raw = NoValue
    /\ out = NoValue /\ op = NoCall /\ calls = 0

CallAp ==
    /\ op = NoCall
    /\ CanAp(self, other)
    /\ out' = ap(self, other)
    /\ op' = Call("ap", "none")
    /\ UNCHANGED <<self, other, iter, raw, calls>>

CallMerge ==
    /\ op = NoCall
    /\ CanMerge(self, other)
    /\ out' = merge(self, other)
    /\ op' = Call("merge", "none")
    /\ UNCHANGED <<self, other, iter, raw, calls>>

NextAp == CallAp \/ CallMerge

SpecAp == InitAp /\ [][NextAp]_vars

(***************************************************************************)
(* SpecCollect: one collect() of a sequence of Validation<String, E> into  *)
(* Validation<Vec<String>, E> or Validation<String, E>.                    *)
(***************************************************************************)
MaxElemErrs == 2  \* longest error sequence of one collected element

CollectAtoms == {Err("E1"), Err("E2")}

Elements ==
    {Ok(x) : x \in Strings} \cup {Errs(es) : es \in SeqsUpTo(CollectAtoms, MaxElemErrs)}

InitCollect ==
    /\ iter \in {<<>>} \cup SeqsUpTo(Elements, MaxIter)
    /\ self = NoValue /\ other = NoValue /\ raw = NoValue
    /\ out = NoValue /\ op = NoCall /\ calls = 0

CallCollect(B) ==
    /\ op = NoCall
    /\ out' = from_iter(iter, B)
    /\ op' = Call("collect", B)
    /\ UNCHANGED <<self, other, iter, raw, calls>>

NextCollect == \E B \in {"Vec", "String"} : CallCollect(B)

SpecCollect == InitCollect /\ [][NextCollect]_vars

(***************************************************************************)
(* SpecUnary: one call of map, map_err, map_errs or Validation::from.      *)
(***************************************************************************)
Results ==
    {ResultOk(x) : x \in Values}
        \cup {ResultErr(e) : e \in ErrAtoms \cup {Wrapped(<<Err("E1"), Err("E2")>>)}}

\* How many times each combinator invokes its closure.
map_calls(v) == IF IsOk(v) THEN 1 ELSE 0

map_err_calls(v) == IF IsOk(v) THEN 0 ELSE Len(v.errors)

map_errs_calls(v) == IF IsOk(v) THEN 0 ELSE 1

InitUnary ==
    /\ self \in {Ok(x) : x \in Values} \cup Failures
    /\ raw \in Results
    /\ other = NoValue /\ iter = <<>>
    /\ out = NoValue /\ op = NoCall /\ calls = 0

CallMap(f) ==
    /\ op = NoCall
    /\ IsOk(self) => Applicable(Fn(f, <<>>), self.value)
    /\ out' = map(self, Fn(f, <<>>))
    /\ calls' = map_calls(self)
    /\ op' = Call("map", f)
    /\ UNCHANGED <<self, other, iter, raw>>

CallMapErr(g) ==
    /\ op = NoCall
    /\ out' = map_err(self, g)
    /\ calls' = map_err_calls(self)
    /\ op' = Call("map_err", g)
    /\ UNCHANGED <<self, other, iter, raw>>

CallMapErrs(h) ==
    /\ op = NoCall
    /\ out' = map_errs(self, h)
    /\ calls' = map_errs_calls(self)
    /\ op' = Call("map_errs", h)
    /\ UNCHANGED <<self, other, iter, raw>>

CallFrom ==
    /\ op = NoCall
    /\ out' = Validation_from(raw)
    /\ op' = Call("from", "none")
    /\ UNCHANGED <<self, other, iter, raw, calls>>

NextUnary ==
    \/ \E f \in {"id", "to_unit", "rev"} : CallMap(f)
    \/ \E g \in {"flip", "konst"} : CallMapErr(g)
    \/ \E h \in {"head", "konst", "wrap"} : CallMapErrs(h)
    \/ CallFrom

SpecUnary == InitUnary /\ [][NextUnary]_vars

(***************************************************************************)
(* Spec: a client that builds Validations with From<Result>, Default and   *)
(* Validation::Errs(e.into()), and then applies the combinators to what it *)
(* has built, in any order.  The receiver is self; other is the second     *)
(* operand of ap / merge, and iter the sequence being gathered for         *)
(* collect().  A result replaces self.                                     *)
(***************************************************************************)
ChainAtoms == {Err("E1"), Err("E2")}

\* The number of error values a Validation holds, nested ones included.
Weight(v) ==
    IF IsOk(v) THEN 0
    ELSE LET w[i \in 0..Len(v.errors)] ==
                 IF i = 0 THEN 0
                 ELSE w[i - 1] + (IF v.errors[i].err = "Wrapped"
                                  THEN 1 + Len(v.errors[i].errors) ELSE 1)
         IN  w[Len(v.errors)]

IterWeight(it) ==
    LET w[i \in 0..Len(it)] == IF i = 0 THEN 0 ELSE w[i - 1] + Weight(it[i])
    IN  w[Len(it)]

\* The client keeps at most MaxChain error values alive at a time.
Fits(v, w, it) == Weight(v) + Weight(w) + IterWeight(it) <= MaxChain

Init ==
    /\ self = Validation_default("Unit")
    /\ other = Validation_default("Unit")
    /\ iter = <<>> /\ raw = NoValue
    /\ out = NoValue /\ op = NoCall /\ calls = 0

NewFromResult(r) ==
    /\ self' = Validation_from(r)
    /\ Fits(self', other, iter)
    /\ UNCHANGED <<other, iter, raw, out, op, calls>>

NewDefault ==
    /\ self' = Validation_default("Unit")
    /\ UNCHANGED <<other, iter, raw, out, op, calls>>

NewSingleErr(e) ==
    /\ self' = Errs(NEV_from(e))
    /\ Fits(self', other, iter)
    /\ UNCHANGED <<other, iter, raw, out, op, calls>>

ChainMap(f) ==
    /\ IsOk(self) => Applicable(Fn(f, <<>>), self.value)
    /\ self' = map(self, Fn(f, <<>>))
    /\ UNCHANGED <<other, iter, raw, out, op, calls>>

ChainMapErr(g) ==
    /\ self' = map_err(self, g)
    /\ UNCHANGED <<other, iter, raw, out, op, calls>>

ChainMapErrs(h) ==
    /\ h = "wrap" /\ IsErrs(self) =>
           \A i \in 1..Len(self.errors) : self.errors[i].err # "Wrapped"
    /\ self' = map_errs(self, h)
    /\ Fits(self', other, iter)
    /\ UNCHANGED <<other, iter, raw, out, op, calls>>

\* ap and merge consume both operands: the result becomes the receiver and
\* other is re-initialised.
ChainAp ==
    /\ CanAp(self, other)
    /\ self' = ap(self, other)
    /\ other' = Validation_default("Unit")
    /\ UNCHANGED <<iter, raw, out, op, calls>>

ChainMerge ==
    /\ CanMerge(self, other)
    /\ self' = merge(self, other)
    /\ other' = Validation_default("Unit")
    /\ UNCHANGED <<iter, raw, out, op, calls>>

Swap ==
    /\ self' = other
    /\ other' = self
    /\ UNCHANGED <<iter, raw, out, op, calls>>

\* The receiver is moved to the end of the sequence to collect.
Push ==
    /\ Len(iter) < MaxIter
    /\ IsOk(self) => self.value.kind = "unit"
    /\ iter' = Append(iter, self)
    /\ self' = Validation_default("Unit")
    /\ UNCHANGED <<other, raw, out, op, calls>>

ChainCollect(B) ==
    /\ self' = from_iter(iter, B)
    /\ iter' = <<>>
    /\ Fits(self', other, iter')
    /\ UNCHANGED <<other, raw, out, op, calls>>

Next ==
    \/ \E r \in {ResultOk(Unit)} \cup {ResultErr(e) : e \in ChainAtoms} : NewFromResult(r)
    \/ NewDefault
    \/ \E e \in ChainAtoms : NewSingleErr(e)
    \/ \E f \in {"id", "merge_outer"} : ChainMap(f)
    \/ \E g \in {"flip", "konst"} : ChainMapErr(g)
    \/ \E h \in {"head", "konst", "wrap"} : ChainMapErrs(h)
    \/ ChainAp
    \/ ChainMerge
    \/ Swap
    \/ Push
    \/ \E B \in {"Vec", "Unit"} : ChainCollect(B)

Spec == Init /\ [][Next]_vars

(***************************************************************************)
(* Properties.                                                             *)
(***************************************************************************)
\* The error sequence a Validation carries: empty for Ok.
ErrorsOf(v) == IF IsErrs(v) THEN v.errors ELSE <<>>

\* C1: self.ap(other) follows the four-row table: Ok(t), Ok(f) gives Ok(f(t));
\* Ok, Errs(e) gives Errs(e); Errs(e), Ok gives Errs(e); Errs(e1), Errs(e2)
\* gives Errs of e1's elements followed by e2's elements, each in its own
\* order.  The result is Ok only when both operands are Ok, and no error of
\* either operand is dropped or reordered.
C1_ApTable ==
    op.name = "ap" =>
        /\ IsOk(self) /\ IsOk(other) => out = Ok(Apply(other.value, self.value))
        /\ IsOk(self) /\ IsErrs(other) => out = Errs(other.errors)
        /\ IsErrs(self) /\ IsOk(other) => out = Errs(self.errors)
        /\ IsErrs(self) /\ IsErrs(other) =>
               /\ IsErrs(out)
               /\ Len(out.errors) = Len(self.errors) + Len(other.errors)
               /\ \A i \in 1..Len(self.errors) : out.errors[i] = self.errors[i]
               /\ \A j \in 1..Len(other.errors) :
                      out.errors[Len(self.errors) + j] = other.errors[j]
        /\ IsOk(out) <=> (IsOk(self) /\ IsOk(other))

C1_Witness ==
    /\ op.name = "ap"
    /\ IsErrs(self) /\ IsErrs(other)
    /\ Len(self.errors) >= 2 /\ Len(other.errors) >= 2
    /\ self.errors[1] # self.errors[2]
    /\ other.errors # self.errors
    /\ Len(out.errors) = Len(self.errors) + Len(other.errors)

\* All the errors of a sequence of Validations, element after element.
RECURSIVE ErrorsOfAll(_)
ErrorsOfAll(it) ==
    IF it = <<>> THEN <<>> ELSE ErrorsOf(Head(it)) \o ErrorsOfAll(Tail(it))

\* C2: collecting a sequence in which at least one element is Errs yields Errs
\* whose errors are the errors of every failing element, in input order and
\* each element's errors in their own order; collection does not stop at the
\* first failure, and the Ok elements contribute nothing.
C2_CollectErrs ==
    (op.name = "collect" /\ \E i \in 1..Len(iter) : IsErrs(iter[i])) =>
        /\ IsErrs(out)
        /\ out.errors = ErrorsOfAll(iter)

C2_Witness ==
    /\ op.name = "collect"
    /\ Len(iter) = 3
    /\ IsErrs(iter[1]) /\ Len(iter[1].errors) = 2
    /\ iter[1].errors[1] # iter[1].errors[2]
    /\ IsOk(iter[2])
    /\ IsErrs(iter[3]) /\ iter[3].errors # iter[1].errors
    /\ IsErrs(out) /\ Len(out.errors) = 2 + Len(iter[3].errors)

\* C3: collecting a sequence in which every element is Ok yields Ok of the
\* collection of all the contained values, as long as the input and in the
\* input's order (for the target Vec; the target String holds the strings
\* joined in that order).
C3_CollectOk ==
    (op.name = "collect" /\ \A i \in 1..Len(iter) : IsOk(iter[i])) =>
        /\ IsOk(out)
        /\ op.arg = "Vec" =>
               /\ out.value.kind = "vec"
               /\ Len(out.value.items) = Len(iter)
               /\ \A i \in 1..Len(iter) : out.value.items[i] = iter[i].value
        /\ op.arg = "String" =>
               out.value = Str(Concat([i \in 1..Len(iter) |-> iter[i].value]))

C3_Witness ==
    /\ op.name = "collect" /\ op.arg = "Vec"
    /\ Len(iter) = 3
    /\ \A i \in 1..3 : IsOk(iter[i])
    /\ iter[1] # iter[2]
    /\ IsOk(out) /\ Len(out.value.items) = 3

\* Whether every error sequence inside the Validation v is non-empty.
NonEmptyErrs(v) ==
    IsErrs(v) =>
        /\ Len(v.errors) >= 1
        /\ \A i \in 1..Len(v.errors) :
               v.errors[i].err = "Wrapped" => Len(v.errors[i].errors) >= 1

\* C4: starting from Validations built by From<Result>, Default or from a
\* single error, every Errs reachable through map, map_err, map_errs, ap,
\* merge and collect holds at least one error.
C4_NonEmpty ==
    /\ NonEmptyErrs(self)
    /\ NonEmptyErrs(other)
    /\ \A i \in 1..Len(iter) : NonEmptyErrs(iter[i])

C4_Witness ==
    /\ IsErrs(self)
    /\ Len(self.errors) = 2
    /\ self.errors[1].err = "Wrapped"
    /\ self.errors[2].err # "Wrapped"
    /\ Len(iter) >= 1 /\ IsOk(iter[1])

\* C5 as stated: when both operands are Ok, merge produces Ok of the
\* two-element sequence [self's value, other's value].
C5_MergeOkPair ==
    (op.name = "merge" /\ IsOk(self) /\ IsOk(other)) =>
        out = Ok(Vec(<<self.value, other.value>>))

\* C5 (amended): when both operands are Ok, merge produces Ok of one value of
\* the operands' own type T, the one T's FromIterator builds from the
\* two-element sequence [self's value, other's value]: () for T = (), and
\* self's string followed by other's string for T = String.
C5_MergeOkCollected ==
    (op.name = "merge" /\ IsOk(self) /\ IsOk(other)) =>
        /\ IsOk(out)
        /\ out.value.kind = self.value.kind
        /\ self.value.kind = "unit" => out.value = Unit
        /\ self.value.kind = "str" =>
               out.value = Str(self.value.chars \o other.value.chars)

C5_Witness ==
    /\ op.name = "merge"
    /\ IsOk(self) /\ IsOk(other)
    /\ self.value.kind = "str"
    /\ self.value # other.value
    /\ IsOk(out) /\ Len(out.value.chars) = Len(self.value.chars) + Len(other.value.chars)

\* C6: for the four combinations of Ok and Errs operands, merge accumulates
\* errors as the equivalent ap call does: the result is Errs exactly when an
\* operand is Errs, and then its errors are self's (if any) followed by
\* other's (if any), in their original order.
C6_MergeAsAp ==
    op.name = "merge" =>
        /\ IsErrs(out) <=> (IsErrs(self) \/ IsErrs(other))
        /\ ErrorsOf(out) = ErrorsOf(self) \o ErrorsOf(other)
        /\ \A f \in Closures :
               LET lifted == IF IsOk(other) THEN Ok(f) ELSE other
               IN  CanAp(self, lifted) =>
                       /\ ap(self, lifted).tag = out.tag
                       /\ ErrorsOf(ap(self, lifted)) = ErrorsOf(out)

C6_Witness ==
    /\ op.name = "merge"
    /\ IsErrs(self) /\ IsErrs(other)
    /\ Len(self.errors) >= 2
    /\ self.errors # other.errors
    /\ IsErrs(out) /\ Len(out.errors) = Len(self.errors) + Len(other.errors)

\* C7: the nested ap calls of Person::validate yield Ok of the assembled
\* record iff the three fields are Ok, and otherwise Errs whose errors are
\* those of the failing fields in the order email, name, phone.  With all
\* three fields invalid there are exactly three errors: invalid-email,
\* invalid-name, and invalid-phone wrapping [length-out-of-range,
\* invalid-format].
C7_PersonFlattening ==
    op.name = "Person::validate" =>
        LET email == Email_validate(raw.email)
            name == FullName_validate(raw.name)
            phone == PhoneNumber_validate(raw.phone)
            e1 == IF IsErrs(email)
                  THEN <<[err |-> "InvalidEmail", text |-> raw.email]>> ELSE <<>>
            e2 == IF IsErrs(name) THEN <<Err("InvalidFullName")>> ELSE <<>>
            e3 == IF IsErrs(phone)
                  THEN <<[err |-> "InvalidPhoneNumber", errors |-> phone.errors]>>
                  ELSE <<>>
        IN  /\ IsOk(out) <=> (IsOk(email) /\ IsOk(name) /\ IsOk(phone))
            /\ IsOk(out) =>
                   out.value = [kind |-> "Person", email |-> email.value,
                                name |-> name.value, phone |-> phone.value]
            /\ ErrorsOf(out) = e1 \o e2 \o e3
            /\ raw = PersonRaw(<<"ENVELOPE">>, <<"JOY">>, <<"PHONE">>) =>
                   out = Errs(<<[err |-> "InvalidEmail", text |-> <<"ENVELOPE">>],
                                Err("InvalidFullName"),
                                [err |-> "InvalidPhoneNumber",
                                 errors |-> <<Err("LengthOutOfRange"),
                                              Err("InvalidFormat")>>]>>)

C7_Witness ==
    /\ op.name = "Person::validate"
    /\ raw = PersonRaw(<<"ENVELOPE">>, <<"JOY">>, <<"PHONE">>)
    /\ IsErrs(out) /\ Len(out.errors) = 3
    /\ Len(out.errors[3].errors) = 2

\* C8: map_errs(f) on Errs(es) applies f once, to the whole of es, and
\* returns Errs of the one-element sequence [f(es)], however many errors es
\* held; on Ok(v) it returns Ok(v) and does not call f.
C8_MapErrsCollapses ==
    op.name = "map_errs" =>
        /\ IsErrs(self) =>
               /\ IsErrs(out)
               /\ Len(out.errors) = 1
               /\ out.errors[1] = ApplyH(op.arg, self.errors)
               /\ op.arg = "wrap" => out.errors[1].errors = self.errors
               /\ calls = 1
        /\ IsOk(self) => out = self /\ calls = 0

C8_Witness ==
    /\ op.name = "map_errs" /\ op.arg = "wrap"
    /\ IsErrs(self) /\ Len(self.errors) = 3
    /\ IsErrs(out) /\ Len(out.errors) = 1

\* C9: the conversion from a fail-fast result is total and loses nothing:
\* Success(t) becomes Ok(t), and Failure(e) becomes Errs of the one-element
\* sequence [e].
C9_FromResult ==
    op.name = "from" =>
        /\ raw.res = "Ok" => out = Ok(raw.value)
        /\ raw.res = "Err" =>
               /\ IsErrs(out)
               /\ Len(out.errors) = 1
               /\ out.errors[1] = raw.error

C9_Witness ==
    /\ op.name = "from"
    /\ raw.res = "Err" /\ raw.error.err = "Wrapped"
    /\ IsErrs(out)

\* C10: collecting the empty sequence yields Ok of the target's empty
\* collection, never Errs.
C10_CollectEmpty ==
    (op.name = "collect" /\ iter = <<>>) =>
        /\ IsOk(out)
        /\ op.arg = "Vec" => out.value = Vec(<<>>)
        /\ op.arg = "String" => out.value = Str(<<>>)

C10_Witness ==
    /\ op.name = "collect" /\ op.arg = "Vec"
    /\ iter = <<>>
    /\ IsOk(out)

====
